---- MODULE Spec2Model ----
(***************************************************************************)
(* Model of gtakeout/downloader.py: the download orchestration core.       *)
(* One invocation of download_all is a walk of pc from "idle" back to      *)
(* "idle"; the download directory and the state file outlive it.  The      *)
(* environment may set the cancel token while it runs, stop the process    *)
(* between two steps or inside a write of the state file, and remove a     *)
(* downloaded file between two invocations.                                *)
(*                                                                         *)
(* Strings are modelled as sequences of tokens.  The only character the    *)
(* code ever splits on is ":", so ":" is always a token of its own and no  *)
(* other token contains one.                                               *)
(***************************************************************************)
EXTENDS Naturals, Integers, Sequences, FiniteSets, TLC

\* ---------------------------------------------------------------- bounds
MaxTargets == 3     \* targets of the page a session is run against
\* elements on the export page: as many as MaxTargets targets take when two
\* selectors match each element
MaxElems == (MaxTargets + 1) \div 2
MaxRuns == 2        \* invocations of download_all on the same directory
MaxPolls == 2       \* polls of one acquisition attempt (400 in the code)

\* ------------------------------------------------------- program constants
max_attempts == 3
poll_ms == 1500
max_wait_ms == MaxPolls * poll_ms

\* ------------------------------------------------------------ strings
Colon == ":"
Digits == <<"0", "1", "2", "3", "4", "5", "6", "7", "8", "9">>

\* str(i) for a small non-negative i
Str(i) == <<Digits[i + 1]>>

\* int(s): the number s denotes, or -1 when int() raises ValueError
ParseInt(s) ==
  IF Len(s) = 1 /\ \E d \in 1..Len(Digits) : Digits[d] = s[1]
  THEN (CHOOSE d \in 1..Len(Digits) : Digits[d] = s[1]) - 1
  ELSE -1

\* positions of ":" in s, ascending
ColonPositions(s) == {p \in 1..Len(s) : s[p] = Colon}

Min(S) == CHOOSE x \in S : \A y \in S : x <= y

\* key.split(":", 2): the parts around the first two ":" (at most 3 parts)
Split2(s) ==
  LET cs == ColonPositions(s) IN
  IF cs = {} THEN <<s>>
  ELSE LET p1 == Min(cs)
           rest == cs \ {p1}
       IN IF rest = {} THEN <<SubSeq(s, 1, p1 - 1), SubSeq(s, p1 + 1, Len(s))>>
          ELSE LET p2 == Min(rest) IN
               <<SubSeq(s, 1, p1 - 1), SubSeq(s, p1 + 1, p2 - 1),
                 SubSeq(s, p2 + 1, Len(s))>>

\* ------------------------------------------------------------ the page
Sel1 == <<"a[download]">>
Sel2 == <<"a", Colon, "has-text('Download')">>
Sel3 == <<"button", Colon, "has-text('Download')">>
Sel4 == <<"a[href$='.zip']">>
selectors == <<Sel1, Sel2, Sel3, Sel4>>

HrefNone == <<>>
HrefRel == <<"part.zip">>
HrefAbs == <<"https", Colon, "//t/part.zip">>
HrefHash == <<"#">>

EndsZip(h) == h # <<>> /\ h[Len(h)] \in {"part.zip", "//t/part.zip"}

\* filenames a download may suggest ("" is an empty suggestion)
Files == {"a.zip", "b.tgz", "download.zip"}
IsZip(f) == f \in {"a.zip", "download.zip"}

\* the kinds of element the page may hold: tag, download attribute, visible
\* text "Download", href, and the filename the transfer it starts suggests
ElemKinds ==
  { [tag |-> "a", dl |-> TRUE, txt |-> FALSE, href |-> HrefRel, file |-> "a.zip"],
    [tag |-> "a", dl |-> FALSE, txt |-> TRUE, href |-> HrefAbs, file |-> "b.tgz"],
    [tag |-> "button", dl |-> FALSE, txt |-> TRUE, href |-> HrefNone, file |-> "a.zip"],
    [tag |-> "a", dl |-> TRUE, txt |-> FALSE, href |-> HrefHash, file |-> ""] }

Pages == UNION {[1..n -> ElemKinds] : n \in 0..MaxElems}

Matches(sel, e) ==
  IF sel = Sel1 THEN e.tag = "a" /\ e.dl
  ELSE IF sel = Sel2 THEN e.tag = "a" /\ e.txt
  ELSE IF sel = Sel3 THEN e.tag = "button" /\ e.txt
  ELSE IF sel = Sel4 THEN e.tag = "a" /\ EndsZip(e.href)
  ELSE FALSE

\* page.locator(sel): the matching elements in document order
Locator(pg, sel) == SelectSeq(pg, LAMBDA e : Matches(sel, e))

\* f"{sel}:{i}:{href or ''}"
MakeKey(sel, i, href) == sel \o <<Colon>> \o Str(i) \o <<Colon>> \o href

RECURSIVE CollectSel_Blind(_, _, _, _)
\* CollectSel with a fault: the key leaves out the index and seen is not looked at
CollectSel_Blind(loc, sel, i, acc) ==
  IF i >= Len(loc) THEN acc
  ELSE CollectSel_Blind(loc, sel, i + 1, Append(acc, MakeKey(sel, 0, loc[i + 1].href)))

RECURSIVE CollectSel(_, _, _, _)
\* the inner loop of _collect_download_targets over one selector's matches
CollectSel(loc, sel, i, acc) ==
  IF i >= Len(loc) THEN acc
  ELSE LET key == MakeKey(sel, i, loc[i + 1].href) IN
       IF \E j \in 1..Len(acc) : acc[j] = key
       THEN CollectSel(loc, sel, i + 1, acc)
       ELSE CollectSel(loc, sel, i + 1, Append(acc, key))

RECURSIVE CollectFrom(_, _, _)
CollectFrom(pg, s, acc) ==
  IF s > Len(selectors) THEN acc
  ELSE CollectFrom(pg, s + 1, CollectSel(Locator(pg, selectors[s]), selectors[s], 0, acc))

\* _collect_download_targets(page)
CollectDownloadTargets(pg) == CollectFrom(pg, 1, <<>>)

\* sel, idx, _ = key.split(":", 2); idx = int(idx)
\* the decoded [ok, sel, idx]; ok is FALSE when the unpacking or int() raises
DecodeKey(key) ==
  LET parts == Split2(key) IN
  IF Len(parts) # 3 THEN [ok |-> FALSE, sel |-> <<>>, idx |-> 0]
  ELSE IF ParseInt(parts[2]) < 0 THEN [ok |-> FALSE, sel |-> parts[1], idx |-> 0]
  ELSE [ok |-> TRUE, sel |-> parts[1], idx |-> ParseInt(parts[2])]

\* the pages a session is run against
SessionPages == {pg \in Pages : Len(CollectDownloadTargets(pg)) <= MaxTargets}

\* the filename a click on element e ends up suggesting:
\* download.suggested_filename or "download.zip"
Suggested(e) == IF e.file = "" THEN "download.zip" ELSE e.file

\* ------------------------------------------------------------ the state
VARIABLES
  page,             \* the document the export page shows once signed in
  disk,             \* names of the files in the download directory
  fat,              \* the files on disk that are two units long (the others: one)
  stateFile,        \* downloads_state.json: [status, keys, files]
  pc,               \* position of download_all ("idle": not running)
  resume,           \* download_all's resume argument
  cancelled,        \* CancelToken._cancelled (FALSE also stands for cancel=None)
  completed_keys,   \* DownloadState.completed_keys (in memory)
  completed_files,  \* DownloadState.completed_files (in memory)
  context,          \* the browser context: "none", "open" or "closed"
  attempts,         \* download_all's attempts
  waited,           \* download_all's waited (ms)
  targets,          \* download_all's targets
  idx,              \* position of the for loop in targets (1-based)
  suggested,        \* the filename of the download in flight ("" if none)
  completed_count,  \* download_all's completed_count
  events,           \* what progress_cb received in this invocation
  outcome,          \* how the last invocation ended
  runs,             \* invocations started so far
  clicked,          \* history: keys _click_target was called with
  saved,            \* history: keys download.save_as was called for
  startKeys,        \* history: completed_keys as loaded by this invocation
  startFiles,       \* history: completed_files as loaded by this invocation
  cancelPos,        \* history: targets the loop may still touch once cancelled
  meta,             \* _best_date: what the photo carries (tags, sidecars, mtime)
  best,             \* _best_date: the date returned (NoDate before the call)
  srcTree,          \* organize: the files under source_dir (outside dest_dir)
  destTree,         \* organize: the files under dest_dir, each with its date folder
  nested,           \* organize: dest_dir lies inside source_dir
  org_pc,           \* organize_photos's position: "idle" or "collect"
  all_files,        \* organize_photos's all_files, each with its future's progress
  done,             \* organize_photos's done
  org_events,       \* what progress_cb received in this call of organize_photos
  org_runs,         \* calls of organize_photos so far
  lost,             \* history: files a move replaced at the destination
  leftAtStart,      \* history: image files outside dest_dir when this call began
  archives,         \* extract_all's archives, each with its size and its future
  extractTree,      \* extract: the paths under extract_dir and what each holds
  ext_pc,           \* extract_all's position: "idle", "collect" or "returned"
  global_total_bytes, \* extract_all's global_total_bytes
  global_done_bytes,  \* extract_all's global_done_bytes
  ext_events,       \* what progress_cb received from extract_all
  launch,           \* _prepare_context: what each launch and the install meet
  prepared          \* _prepare_context: how the call ended and what it ran

dateVars == <<meta, best>>
organizeVars == <<srcTree, destTree, nested, org_pc, all_files, done, org_events,
                  org_runs, lost, leftAtStart>>

extractVars == <<archives, extractTree, ext_pc, global_total_bytes, global_done_bytes,
                 ext_events>>

launchVars == <<launch, prepared>>

\* what download_all does not touch
outsideDownload == <<dateVars, organizeVars, extractVars, launchVars>>

downloadVars == <<page, disk, fat, stateFile, pc, resume, cancelled, completed_keys,
          completed_files, context, attempts, waited, targets, idx, suggested,
          completed_count, events, outcome, runs, clicked, saved, startKeys, startFiles,
          cancelPos>>

\* what _best_date, organize_photos and extract_all do not touch
outsideDate == <<downloadVars, organizeVars, extractVars, launchVars>>
outsideOrganize == <<downloadVars, dateVars, extractVars, launchVars>>
outsideExtract == <<downloadVars, dateVars, organizeVars, launchVars>>
outsideLaunch == <<downloadVars, dateVars, organizeVars, extractVars>>

vars == <<downloadVars, dateVars, organizeVars, extractVars, launchVars>>

\* of the files found in the directory before the first invocation, the ones
\* that are two units long
OldLong == {"a.zip"}

MissingFile == [status |-> "missing", keys |-> {}, files |-> {}]
CorruptFile == [status |-> "corrupt", keys |-> {}, files |-> {}]

\* no invocation has run yet
AtRest ==
  /\ pc = "idle"
  /\ resume = TRUE
  /\ cancelled = FALSE
  /\ completed_keys = {}
  /\ completed_files = {}
  /\ context = "none"
  /\ attempts = 0
  /\ waited = 0
  /\ targets = <<>>
  /\ idx = 0
  /\ suggested = ""
  /\ completed_count = 0
  /\ events = <<>>
  /\ outcome = "none"
  /\ runs = 0
  /\ clicked = {}
  /\ saved = {}
  /\ startKeys = {}
  /\ startFiles = {}
  /\ cancelPos = 0

\* no photo is being dated
NoExif == [state |-> "empty", DateTimeOriginal |-> "", DateTimeDigitized |-> "", DateTime |-> ""]
NoField == [kind |-> "absent", timestamp |-> "None", seconds |-> "None"]
NoSidecar == [form |-> "missing", photoTakenTime |-> NoField, creationTime |-> NoField]
DateAtRest ==
  /\ meta = <<>>
  /\ best = <<>>

\* _prepare_context is not being looked at on its own
Launched == [ok |-> TRUE, cause |-> "", msg |-> {}]
NotPrepared == [result |-> "", launches |-> 0, installs |-> 0, commands |-> 0]
LaunchAtRest ==
  /\ launch = <<>>
  /\ prepared = NotPrepared

\* organize_photos has not been called
OrganizeIdle ==
  /\ org_pc = "idle"
  /\ all_files = <<>>
  /\ done = 0
  /\ org_events = <<>>
  /\ org_runs = 0
  /\ lost = {}
  /\ leftAtStart = 0

\* and there is nothing to organize
OrganizeAtRest ==
  /\ srcTree = {}
  /\ destTree = {}
  /\ nested = FALSE
  /\ OrganizeIdle

\* extract_all has not been called
ExtractIdle ==
  /\ extractTree = {}
  /\ ext_pc = "idle"
  /\ global_total_bytes = 0
  /\ global_done_bytes = 0
  /\ ext_events = <<>>

\* and there is nothing to extract
ExtractAtRest ==
  /\ archives = <<>>
  /\ ExtractIdle

Init ==
  /\ page \in SessionPages
  /\ disk \in SUBSET Files
  /\ fat = disk \cap OldLong
  /\ stateFile = MissingFile
  /\ AtRest
  /\ DateAtRest
  /\ LaunchAtRest
  /\ OrganizeAtRest
  /\ ExtractAtRest

\* ----------------------------------------------------- DownloadState
\* the state file's content, by status:
\*   "missing"          no file
\*   "corrupt"          not JSON
\*   "not_object"       JSON, but a list, a number or a string
\*   "ok"               an object whose two fields are lists
\*   "extra"            the same, with further fields
\*   "keys_misshaped"   an object whose completed_keys is a number
\*   "files_misshaped"  an object whose completed_files is a number
\* keys and files are the lists of the fields that are lists
Wellformed(sf) == sf.status \in {"ok", "extra"}

\* DownloadState.load (lines 39-49). json.loads, data.get and set() raise on
\* the first thing they cannot handle, and what was assigned before stays:
\* line 45 assigns completed_keys before line 46 evaluates completed_files
LoadKeys(sf) == IF Wellformed(sf) \/ sf.status = "files_misshaped" THEN sf.keys ELSE {}
LoadFiles(sf) == IF Wellformed(sf) THEN sf.files ELSE {}

\* DownloadState.save: the whole state replaces the file's content
SaveFile(keys, files) == [status |-> "ok", keys |-> keys, files |-> files]

\* GlobZip with a fault: every file of the directory is taken
GlobZip_All(d) == d

\* download_path.glob("*.zip")
GlobZip(d) == {f \in d : IsZip(f)}

\* the element a decoded key re-locates, as a sequence of 0 or 1 elements
Relocate(pg, dec) ==
  LET loc == Locator(pg, dec.sel) IN
  IF dec.ok /\ dec.idx < Len(loc) THEN <<loc[dec.idx + 1]>> ELSE <<>>

\* MarkKeys with a fault: the key replaces the set
MarkKeys_Replace(keys, key) == {key}

\* DownloadState.mark_completed, on the in-memory sets
MarkKeys(keys, key) == IF key # <<>> THEN keys \cup {key} ELSE keys
MarkFiles(files, filename) == IF filename # "" THEN files \cup {filename} ELSE files

\* f.stat().st_size, in units: a file on disk is one or two units long
FileSize(f, ft) == IF f \in ft THEN 2 ELSE 1

\* the sizes on disk once save_as has written to f: every archive the server
\* sends is one unit long, and a failed save_as leaves at most that much
Written(ft, f) == ft \ {f}

RECURSIVE SumSizes(_, _)
SumSizes(S, ft) ==
  IF S = {} THEN 0
  ELSE LET f == CHOOSE x \in S : TRUE IN FileSize(f, ft) + SumSizes(S \ {f}, ft)

\* lines 232 and 263/270: the sizes of the completed_files that exist, summed
BytesCompleted(files, d, ft) == SumSizes(files \cap d, ft)

\* ------------------------------------------------------ download_all
Running == pc # "idle"
CurKey == targets[idx]

Emit(e) == events' = Append(events, e)

\* the invocation ends by raising: nothing after the raise runs
Raise ==
  /\ pc' = "idle"
  /\ outcome' = "raised"

\* lines 180-188: mkdir, load the state, seed completed_files from *.zip on disk
Start ==
  /\ pc = "idle"
  /\ runs < MaxRuns
  /\ runs' = runs + 1
  /\ resume' \in BOOLEAN
  /\ cancelled' = FALSE
  /\ completed_keys' = LoadKeys(stateFile)
  /\ completed_files' = LoadFiles(stateFile) \cup GlobZip(disk)
  /\ startKeys' = LoadKeys(stateFile)
  /\ startFiles' = LoadFiles(stateFile)
  /\ pc' = "init_save"
  /\ context' = "none"
  /\ attempts' = 0
  /\ waited' = 0
  /\ targets' = <<>>
  /\ idx' = 0
  /\ suggested' = ""
  /\ completed_count' = 0
  /\ events' = <<>>
  /\ outcome' = "running"
  /\ clicked' = {}
  /\ saved' = {}
  /\ cancelPos' = 0
  /\ UNCHANGED <<page, disk, stateFile>>
  /\ UNCHANGED fat
  /\ UNCHANGED outsideDownload

\* line 189: state.save()
InitSave ==
  /\ pc = "init_save"
  /\ stateFile' = SaveFile(completed_keys, completed_files)
  /\ pc' = "prepare"
  /\ UNCHANGED <<page, disk, resume, cancelled, completed_keys, completed_files,
                 context, attempts, waited, targets, idx, suggested,
                 completed_count, events, outcome, runs, clicked, saved,
                 startKeys, startFiles, cancelPos>>
  /\ UNCHANGED fat
  /\ UNCHANGED outsideDownload

\* _prepare_context (lines 127-169): the launch succeeds, or fails for missing
\* browser binaries and is retried once after the install, or fails otherwise
LaunchResults == {"ok", "missing_then_ok", "missing_then_fail", "fail"}
LaunchOpens(r) == r \in {"ok", "missing_then_ok"}

\* lines 191 and 223: context = await _prepare_context(...)
Prepare ==
  /\ pc = "prepare"
  /\ \E r \in LaunchResults :
       IF LaunchOpens(r)
       THEN /\ context' = "open"
            /\ pc' = "goto"
            /\ UNCHANGED outcome
       ELSE /\ Raise
            /\ UNCHANGED context
  /\ UNCHANGED <<page, disk, stateFile, resume, cancelled, completed_keys,
                 completed_files, attempts, waited, targets, idx, suggested,
                 completed_count, events, runs, clicked, saved, startKeys, startFiles,
                 cancelPos>>
  /\ UNCHANGED fat
  /\ UNCHANGED outsideDownload

\* lines 196-204: attempts += 1; new_page(); goto(url), which may raise
Goto ==
  /\ pc = "goto"
  /\ attempts' = attempts + 1
  /\ waited' = 0
  /\ targets' = <<>>
  /\ \E ok \in BOOLEAN :
       IF ok THEN pc' = "poll" /\ UNCHANGED outcome
       ELSE Raise
  /\ UNCHANGED <<page, disk, stateFile, resume, cancelled, completed_keys,
                 completed_files, context, idx, suggested, completed_count,
                 events, runs, clicked, saved, startKeys, startFiles, cancelPos>>
  /\ UNCHANGED fat
  /\ UNCHANGED outsideDownload

\* what one pass of the wait loop (lines 206-215) can meet: targets, none yet,
\* _collect_download_targets raising, or page.wait_for_timeout raising because
\* the page or the context was closed or for another reason
PollResults == {"found", "none", "discovery_error", "page_closed", "context_closed",
                "other_error"}

\* line 218: "Target page" in str(e) or "has been closed" in str(e)
IsClosure(r) == r \in {"page_closed", "context_closed"}

\* Swallowed with a fault: an error of the discovery is not caught
Swallowed_Never(r) == FALSE

\* lines 207-210: except Exception: targets = []
Swallowed(r) == r = "discovery_error"

\* RetryAllowed with a fault: the attempts are not counted
RetryAllowed_Always(r) == IsClosure(r)

\* line 218: retry only a closure, and only below the attempt budget
RetryAllowed(r) == attempts < max_attempts /\ IsClosure(r)

\* lines 206-226: where one pass of the wait loop that meets r leaves
\* download_all: its position, waited, targets, the context, and whether the
\* exception leaves download_all
WaitPass(r) ==
  CASE r = "found" ->
         [pc |-> "start_event", waited |-> waited,
          targets |-> CollectDownloadTargets(page), context |-> context, raised |-> FALSE]
    [] r = "none" \/ Swallowed(r) ->
         [pc |-> "poll", waited |-> waited + poll_ms,
          targets |-> <<>>, context |-> context, raised |-> FALSE]
    [] IsClosure(r) /\ RetryAllowed(r) ->
         [pc |-> "prepare", waited |-> waited,
          targets |-> <<>>, context |-> "closed", raised |-> FALSE]
    [] IsClosure(r) /\ ~RetryAllowed(r) ->
         [pc |-> "idle", waited |-> waited, targets |-> <<>>,
          context |-> IF r = "context_closed" THEN "closed" ELSE context, raised |-> TRUE]
    [] OTHER ->
         [pc |-> "idle", waited |-> waited,
          targets |-> <<>>, context |-> context, raised |-> TRUE]

\* lines 206-226: one pass of the wait loop and the handler around it
Poll ==
  /\ pc = "poll"
  /\ waited < max_wait_ms
  /\ \E r \in PollResults :
       LET left == WaitPass(r) IN
       /\ r = "found" => left.targets # <<>>
       /\ pc' = left.pc
       /\ waited' = left.waited
       /\ targets' = left.targets
       /\ context' = left.context
       /\ outcome' = IF left.raised THEN "raised" ELSE outcome
  /\ UNCHANGED <<page, disk, stateFile, resume, cancelled, completed_keys,
                 completed_files, attempts, idx, suggested, completed_count,
                 events, runs, clicked, saved, startKeys, startFiles, cancelPos>>
  /\ UNCHANGED fat
  /\ UNCHANGED outsideDownload

\* line 206 false: the ceiling elapsed with no target
PollTimeout ==
  /\ pc = "poll"
  /\ waited >= max_wait_ms
  /\ pc' = "start_event"
  /\ UNCHANGED <<page, disk, stateFile, resume, cancelled, completed_keys,
                 completed_files, context, attempts, waited, targets, idx,
                 suggested, completed_count, events, outcome, runs, clicked,
                 saved, startKeys, startFiles, cancelPos>>
  /\ UNCHANGED fat
  /\ UNCHANGED outsideDownload

StartEvent ==
  [event |-> "start", total_files |-> Len(targets),
   completed_files |-> Cardinality(completed_keys),
   bytes_completed |-> BytesCompleted(completed_files, disk, fat)]

\* lines 230-241: the start event; with no target, close the context and return
EmitStart ==
  /\ pc = "start_event"
  /\ Emit(StartEvent)
  \* attempts and waited are not read again: cleared, to merge equal futures
  /\ attempts' = 0
  /\ waited' = 0
  /\ IF targets = <<>>
     THEN /\ context' = "closed"
          /\ pc' = "idle"
          /\ outcome' = "returned"
          /\ UNCHANGED <<idx, completed_count>>
     ELSE /\ pc' = "loop"
          /\ idx' = 1
          /\ completed_count' = 0
          /\ UNCHANGED <<context, outcome>>
  /\ UNCHANGED <<page, disk, stateFile, resume, cancelled, completed_keys,
                 completed_files, targets, suggested, runs, clicked, saved,
                 startKeys, startFiles, cancelPos>>
  /\ UNCHANGED fat
  /\ UNCHANGED outsideDownload

\* CancelRequested with a fault: the token is never looked at
CancelRequested_Never == FALSE

\* line 243: cancel and cancel.is_cancelled
CancelRequested == cancelled

\* ShouldSkip with a fault: the resume flag is read the wrong way round
ShouldSkip_Inverted(key) == ~resume /\ key \in completed_keys

\* line 247: skip already completed keys when resuming
ShouldSkip(key) == resume /\ key \in completed_keys

\* AlreadyOnDisk with a fault: the existing file is never noticed
AlreadyOnDisk_Never(filename) == FALSE

\* AlreadyOnDisk with a fault: the recorded filenames are asked, not the directory
AlreadyOnDisk_ByState(filename) == resume /\ filename \in completed_files

\* line 259: the suggested file is already in the download directory
AlreadyOnDisk(filename) == resume /\ filename \in disk

\* NextTarget with a fault: the loop stays on the same target
NextTarget_Again ==
  /\ idx' = idx
  /\ pc' = "loop"
  /\ suggested' = ""

\* the loop moves to the next target
NextTarget ==
  /\ idx' = idx + 1
  /\ pc' = "loop"
  /\ suggested' = ""

\* FailTarget with a fault: the failure ends the loop
FailTarget_Aborts ==
  /\ Emit([event |-> "file_error", key |-> CurKey])
  /\ pc' = "finalize"
  /\ UNCHANGED <<idx, suggested>>

\* lines 273-277: a failure of this target: the error event, then continue
FailTarget ==
  /\ Emit([event |-> "file_error", key |-> CurKey])
  /\ NextTarget

\* line 242 exhausted: the for loop ends
LoopDone ==
  /\ pc = "loop"
  /\ idx > Len(targets)
  /\ pc' = "finalize"
  /\ UNCHANGED <<page, disk, stateFile, resume, cancelled, completed_keys,
                 completed_files, context, attempts, waited, targets, idx,
                 suggested, completed_count, events, outcome, runs, clicked,
                 saved, startKeys, startFiles, cancelPos>>
  /\ UNCHANGED fat
  /\ UNCHANGED outsideDownload

\* lines 243-245: the token is read at the top of the iteration
LoopCancelled ==
  /\ pc = "loop"
  /\ idx <= Len(targets)
  /\ CancelRequested
  /\ pc' = "finalize"
  /\ UNCHANGED <<page, disk, stateFile, resume, cancelled, completed_keys,
                 completed_files, context, attempts, waited, targets, idx,
                 suggested, completed_count, events, outcome, runs, clicked,
                 saved, startKeys, startFiles, cancelPos>>
  /\ UNCHANGED fat
  /\ UNCHANGED outsideDownload

\* lines 247-252: the key is already completed
LoopSkip ==
  /\ pc = "loop"
  /\ idx <= Len(targets)
  /\ ~CancelRequested
  /\ ShouldSkip(CurKey)
  /\ completed_count' = completed_count + 1
  /\ Emit([event |-> "file_skipped", key |-> CurKey,
           completed_files |-> completed_count + 1,
           total_files |-> Len(targets)])
  /\ idx' = idx + 1
  /\ UNCHANGED <<page, disk, stateFile, pc, resume, cancelled, completed_keys,
                 completed_files, context, attempts, waited, targets,
                 suggested, outcome, runs, clicked, saved, startKeys, startFiles, cancelPos>>
  /\ UNCHANGED fat
  /\ UNCHANGED outsideDownload

\* lines 254-257 with _click_target (93-99): decode the key, re-locate the
\* element, click it and await the download it starts; a failure of any of
\* these (ValueError, no such element, detached element, timeout) is this
\* target's failure
Click ==
  /\ pc = "loop"
  /\ idx <= Len(targets)
  /\ ~CancelRequested
  /\ ~ShouldSkip(CurKey)
  /\ clicked' = clicked \cup {CurKey}
  /\ LET dec == DecodeKey(CurKey) IN
     \E ok \in BOOLEAN :
       IF dec.ok /\ Relocate(page, dec) # <<>> /\ ok
       THEN /\ suggested' = Suggested(Relocate(page, dec)[1])
            /\ pc' = "got"
            /\ UNCHANGED <<idx, events>>
       ELSE FailTarget
  /\ UNCHANGED <<page, disk, stateFile, resume, cancelled, completed_keys,
                 completed_files, context, attempts, waited, targets,
                 completed_count, outcome, runs, saved, startKeys, startFiles, cancelPos>>
  /\ UNCHANGED fat
  /\ UNCHANGED outsideDownload

CompleteEvent ==
  [event |-> "file_complete", filename |-> suggested,
   completed_files |-> completed_count + 1, total_files |-> Len(targets),
   bytes_completed |-> BytesCompleted(MarkFiles(completed_files, suggested), disk, fat)]

\* MarkAndReport with a fault: mark_completed does not save
MarkAndReport_NoSave ==
  /\ completed_keys' = MarkKeys(completed_keys, CurKey)
  /\ completed_files' = MarkFiles(completed_files, suggested)
  /\ UNCHANGED stateFile
  /\ completed_count' = completed_count + 1
  /\ Emit(CompleteEvent)
  /\ NextTarget

\* mark_completed (lines 58-63) and what follows it in both branches (lines
\* 260-265 and 268-272): record key and filename, save, count, report
MarkAndReport ==
  /\ completed_keys' = MarkKeys(completed_keys, CurKey)
  /\ completed_files' = MarkFiles(completed_files, suggested)
  /\ stateFile' = SaveFile(MarkKeys(completed_keys, CurKey),
                           MarkFiles(completed_files, suggested))
  /\ completed_count' = completed_count + 1
  /\ Emit(CompleteEvent)
  /\ NextTarget

\* lines 259-265: the file exists: completion is recorded without a transfer
MarkExisting ==
  /\ pc = "got"
  /\ AlreadyOnDisk(suggested)
  /\ MarkAndReport
  /\ UNCHANGED <<page, disk, resume, cancelled, context, attempts, waited,
                 targets, outcome, runs, clicked, saved, startKeys, startFiles, cancelPos>>
  /\ UNCHANGED fat
  /\ UNCHANGED outsideDownload

\* lines 266-267: download.path() and save_as() write the file, or fail; a
\* failed save_as may leave a partial file behind
SaveAs ==
  /\ pc = "got"
  /\ ~AlreadyOnDisk(suggested)
  /\ saved' = saved \cup {CurKey}
  /\ \E r \in {"ok", "fail_clean", "fail_partial"} :
       IF r = "ok"
       THEN /\ disk' = disk \cup {suggested}
            /\ fat' = Written(fat, suggested)
            /\ pc' = "saved"
            /\ UNCHANGED <<idx, suggested, events>>
       ELSE /\ disk' = IF r = "fail_partial" THEN disk \cup {suggested} ELSE disk
            /\ fat' = IF r = "fail_partial" THEN Written(fat, suggested) ELSE fat
            /\ FailTarget
  /\ UNCHANGED <<page, stateFile, resume, cancelled, completed_keys,
                 completed_files, context, attempts, waited, targets,
                 completed_count, outcome, runs, clicked, startKeys, startFiles, cancelPos>>
  /\ UNCHANGED outsideDownload

\* lines 268-272: the transfer is recorded
MarkSaved ==
  /\ pc = "saved"
  /\ MarkAndReport
  /\ UNCHANGED <<page, disk, resume, cancelled, context, attempts, waited,
                 targets, outcome, runs, clicked, saved, startKeys, startFiles, cancelPos>>
  /\ UNCHANGED fat
  /\ UNCHANGED outsideDownload

\* lines 281-284: close the context, emit the end event
Finalize ==
  /\ pc = "finalize"
  /\ context' = "closed"
  /\ Emit([event |-> "end"])
  /\ pc' = "idle"
  /\ outcome' = "returned"
  /\ UNCHANGED <<page, disk, stateFile, resume, cancelled, completed_keys,
                 completed_files, attempts, waited, targets, idx, suggested,
                 completed_count, runs, clicked, saved, startKeys, startFiles, cancelPos>>
  /\ UNCHANGED fat
  /\ UNCHANGED outsideDownload

\* ------------------------------------------------------ the environment
\* CancelToken.cancel (lines 24-25), called by another thread at any moment
Cancel ==
  /\ Running
  /\ ~cancelled
  /\ cancelled' = TRUE
  /\ cancelPos' = IF pc \in {"got", "saved"} THEN idx
                  ELSE IF pc \in {"loop", "finalize"} THEN idx - 1
                  ELSE 0
  /\ UNCHANGED <<page, disk, stateFile, pc, resume, completed_keys,
                 completed_files, context, attempts, waited, targets, idx,
                 suggested, completed_count, events, outcome, runs, clicked,
                 saved, startKeys, startFiles>>
  /\ UNCHANGED fat
  /\ UNCHANGED outsideDownload

\* the process is gone: its variables and what it reported are forgotten
Forgotten ==
  /\ pc' = "idle"
  /\ resume' = TRUE
  /\ cancelled' = FALSE
  /\ completed_keys' = {}
  /\ completed_files' = {}
  /\ context' = "none"
  /\ attempts' = 0
  /\ waited' = 0
  /\ targets' = <<>>
  /\ idx' = 0
  /\ suggested' = ""
  /\ completed_count' = 0
  /\ events' = <<>>
  /\ clicked' = {}
  /\ saved' = {}
  /\ startKeys' = {}
  /\ startFiles' = {}
  /\ cancelPos' = 0

\* the process stops between two steps: files stay as they are
Crash ==
  /\ Running
  /\ Forgotten
  /\ outcome' = "crashed"
  /\ UNCHANGED <<page, disk, stateFile, runs>>
  /\ UNCHANGED fat
  /\ UNCHANGED outsideDownload

\* a state.save() is next (lines 189, 260, 268)
SaveIsNext ==
  \/ pc = "init_save"
  \/ pc = "saved"
  \/ pc = "got" /\ AlreadyOnDisk(suggested)

\* Path.write_text (line 56) opens the file truncating it and then writes: a
\* process stopped in between leaves a file that is not valid JSON
TornWrite(sf) == CorruptFile

\* the process stops while state.save() is writing
CrashInSave ==
  /\ SaveIsNext
  /\ stateFile' = TornWrite(stateFile)
  /\ Forgotten
  /\ outcome' = "crashed"
  /\ UNCHANGED <<page, disk, runs>>
  /\ UNCHANGED fat
  /\ UNCHANGED outsideDownload

\* between two invocations the user moves or deletes a downloaded file
RemoveFile ==
  /\ pc = "idle"
  /\ runs < MaxRuns
  /\ \E f \in disk : disk' = disk \ {f} /\ fat' = fat \ {f}
  /\ Forgotten
  /\ outcome' = "none"
  /\ UNCHANGED <<page, stateFile, runs>>
  /\ UNCHANGED outsideDownload

Next ==
  \/ Start
  \/ InitSave
  \/ Prepare
  \/ Goto
  \/ Poll
  \/ PollTimeout
  \/ EmitStart
  \/ LoopDone
  \/ LoopCancelled
  \/ LoopSkip
  \/ Click
  \/ MarkExisting
  \/ SaveAs
  \/ MarkSaved
  \/ Finalize
  \/ Cancel
  \/ Crash
  \/ CrashInSave
  \/ RemoveFile

Spec == Init /\ [][Next]_vars

\* ------------------------------------------- DownloadState.load alone
\* keys an earlier session may have recorded
KeySets ==
  {{}, {MakeKey(Sel1, 0, HrefRel)}, {MakeKey(Sel1, 0, HrefRel), MakeKey(Sel4, 0, HrefRel)}}

\* the state files load may meet
StateFileInputs ==
  {MissingFile, CorruptFile, [status |-> "not_object", keys |-> {}, files |-> {}]}
  \cup {[status |-> st, keys |-> ks, files |-> fs] :
          st \in {"ok", "extra", "keys_misshaped", "files_misshaped"},
          ks \in KeySets, fs \in SUBSET Files}

InitLoad ==
  /\ page = <<>>
  /\ disk \in SUBSET Files
  /\ fat = disk \cap OldLong
  /\ stateFile \in StateFileInputs
  /\ AtRest
  /\ DateAtRest
  /\ LaunchAtRest
  /\ OrganizeAtRest
  /\ ExtractAtRest

NextLoad ==
  \/ Start
  \/ InitSave

SpecLoad == InitLoad /\ [][NextLoad]_vars

\* ================================================== organizer.py
\* ------------------------------------------------------- file names
\* a file name is its tokens, the suffix (with its dot) last: IMG-2.jpg is
\* <<"IMG", "-", "2", ".jpg">>
Suffixes == {".jpg", ".JPG", ".txt"}
\* IMAGE_EXTS with a fault: text files are on the list
IMAGE_EXTS_WithTxt == {".jpg", ".txt"}

IMAGE_EXTS == {".jpg", ".jpeg", ".png", ".heic", ".webp", ".tif", ".tiff", ".gif"}

\* Path(filename).suffix and Path(filename).stem
PathSuffix(fn) == IF fn # <<>> /\ fn[Len(fn)] \in Suffixes THEN <<fn[Len(fn)]>> ELSE <<>>
PathStem(fn) == SubSeq(fn, 1, Len(fn) - Len(PathSuffix(fn)))

\* p.suffix.lower()
Lower(sfx) == IF sfx = <<".JPG">> THEN <<".jpg">> ELSE sfx

\* line 122: p.suffix.lower() in IMAGE_EXTS
IsImage(fn) == PathSuffix(fn) # <<>> /\ Lower(PathSuffix(fn))[1] \in IMAGE_EXTS

\* f"{stem}-{counter}{suffix}"
Candidate(stem, counter, sfx) == stem \o <<"-">> \o Str(counter) \o sfx

\* FirstFree with a fault: the scan stops at the first candidate
FirstFree_NoScan(names, stem, sfx, counter) == Candidate(stem, counter, sfx)

RECURSIVE FirstFree(_, _, _, _)
\* the while loop of _ensure_unique_path (lines 91-95)
FirstFree(names, stem, sfx, counter) ==
  IF Candidate(stem, counter, sfx) \notin names
  THEN Candidate(stem, counter, sfx)
  ELSE FirstFree(names, stem, sfx, counter + 1)

\* _ensure_unique_path(dest_dir, filename), names being what dest_dir holds
EnsureUniquePath(names, fn) ==
  IF fn \notin names THEN fn ELSE FirstFree(names, PathStem(fn), PathSuffix(fn), 2)

\* --------------------------------------------------- capture dates
\* a date is the folder it selects, <<year, month, day>>; NoDate is None
NoDate == <<>>
Day1 == <<"2023", "05", "01">>
Day2 == <<"2021", "01", "01">>
Day3 == <<"2019", "07", "04">>

\* datetime.strptime(str(val), "%Y:%m:%d %H:%M:%S"); NoDate when it raises
Strptime(val) ==
  CASE val = "2023:05:01 10:00:00" -> Day1
    [] val = "2021:01:01 00:00:00" -> Day2
    [] OTHER -> NoDate

\* _get_exif_date (lines 52-72). exif.state is "unreadable" (Image.open or
\* getexif raises), "empty" (no tags) or "tags"; a tag that is absent is ""
GetExifDate(exif) ==
  IF exif.state # "tags" THEN NoDate
  ELSE IF exif.DateTimeOriginal # "" /\ Strptime(exif.DateTimeOriginal) # NoDate
       THEN Strptime(exif.DateTimeOriginal)
  ELSE IF exif.DateTimeDigitized # "" /\ Strptime(exif.DateTimeDigitized) # NoDate
       THEN Strptime(exif.DateTimeDigitized)
  ELSE IF exif.DateTime # "" /\ Strptime(exif.DateTime) # NoDate
       THEN Strptime(exif.DateTime)
  ELSE NoDate

\* a value a sidecar gives for "timestamp" or "seconds"; None is a missing key
None == "None"

\* a.get("timestamp") or a.get("seconds"): every string here is truthy
OrElse(a, b) == IF a # None THEN a ELSE b

\* datetime.fromtimestamp(int(val), tz=tz.tzlocal()) guarded by "if ts"
\* (lines 38/41/44-46): NoDate when val is None, when int() raises and when
\* the number is 0
EpochDay(val) ==
  CASE val = "1682935200" -> Day1
    [] val = "1609459200" -> Day2
    [] OTHER -> NoDate

\* one candidate of _find_sidecar_date (lines 30-48). sc.form is "missing",
\* "invalid" (not JSON), "scalar", "object", "array_empty", "array_scalars" or
\* "array" (of objects; the two fields then describe its first element); a
\* field's kind is "absent", "scalar" or "dict"
SidecarDay(sc) ==
  IF sc.form = "object"
  THEN IF sc.photoTakenTime.kind = "dict"
       THEN EpochDay(OrElse(sc.photoTakenTime.timestamp, sc.photoTakenTime.seconds))
       ELSE IF sc.creationTime.kind = "dict"
       THEN EpochDay(OrElse(sc.creationTime.timestamp, sc.creationTime.seconds))
       ELSE NoDate
  ELSE IF sc.form = "array"
  THEN IF sc.photoTakenTime.kind = "dict"
       THEN EpochDay(sc.photoTakenTime.timestamp)
       ELSE NoDate
  ELSE NoDate

\* _find_sidecar_date: <name><ext>.json first, then <name>.json
FindSidecarDate(side1, side2) ==
  IF SidecarDay(side1) # NoDate THEN SidecarDay(side1) ELSE SidecarDay(side2)

\* _best_date with a fault: the sidecar is asked before the embedded tags
BestDate_SidecarFirst(m) ==
  IF FindSidecarDate(m.side1, m.side2) # NoDate THEN FindSidecarDate(m.side1, m.side2)
  ELSE IF GetExifDate(m.exif) # NoDate THEN GetExifDate(m.exif)
  ELSE m.mtime

\* _best_date (lines 75-81)
BestDate(m) ==
  IF GetExifDate(m.exif) # NoDate THEN GetExifDate(m.exif)
  ELSE IF FindSidecarDate(m.side1, m.side2) # NoDate
       THEN FindSidecarDate(m.side1, m.side2)
  ELSE m.mtime

\* ------------------------------------------------ _best_date alone
\* no download is under way and the download directory is empty
DownloadAtRest ==
  /\ page = <<>>
  /\ disk = {}
  /\ fat = {}
  /\ stateFile = MissingFile
  /\ AtRest

\* the embedded tags a photo may carry
ExifInputs ==
  {NoExif, [NoExif EXCEPT !.state = "unreadable"]}
  \cup {[state |-> "tags", DateTimeOriginal |-> o, DateTimeDigitized |-> d, DateTime |-> t] :
          o \in {"", "junk", "2023:05:01 10:00:00"},
          d \in {"", "junk", "2021:01:01 00:00:00"},
          t \in {"", "0000:00:00 00:00:00", "2023:05:01 10:00:00"}}

\* the fields a sidecar may give for photoTakenTime and for creationTime
TakenInputs ==
  {NoField, [NoField EXCEPT !.kind = "scalar"]}
  \cup {[kind |-> "dict", timestamp |-> p[1], seconds |-> p[2]] :
          p \in {<<None, None>>, <<"1682935200", None>>, <<None, "1682935200">>,
                 <<"junk", "1682935200">>, <<"0", "1682935200">>,
                 <<"1609459200", "1682935200">>}}
CreatedInputs ==
  {NoField, [kind |-> "dict", timestamp |-> "1609459200", seconds |-> None],
   [kind |-> "dict", timestamp |-> None, seconds |-> "1609459200"]}

\* the sidecars that may lie next to a photo
SidecarInputs ==
  {[NoSidecar EXCEPT !.form = f] :
     f \in {"missing", "invalid", "scalar", "array_empty", "array_scalars"}}
  \cup {[form |-> f, photoTakenTime |-> p, creationTime |-> c] :
          f \in {"object", "array"}, p \in TakenInputs, c \in CreatedInputs}
Sidecar2Inputs ==
  {NoSidecar, [NoSidecar EXCEPT !.form = "invalid"],
   [form |-> "object", photoTakenTime |-> NoField,
    creationTime |-> [kind |-> "dict", timestamp |-> "1609459200", seconds |-> None]]}

MetaInputs ==
  {[exif |-> e, side1 |-> s1, side2 |-> s2, mtime |-> Day3] :
     e \in ExifInputs, s1 \in SidecarInputs, s2 \in Sidecar2Inputs}

InitDate ==
  /\ DownloadAtRest
  /\ meta \in MetaInputs
  /\ best = NoDate
  /\ OrganizeAtRest
  /\ ExtractAtRest
  /\ LaunchAtRest

\* dt = _best_date(path)
ResolveDate ==
  /\ best = NoDate
  /\ best' = BestDate(meta)
  /\ UNCHANGED <<meta, outsideDate>>

NextDate ==
  \/ ResolveDate

SpecDate == InitDate /\ [][NextDate]_vars

\* ---------------------------------------------------- organize_photos
MaxPhotos == 2      \* files under source_dir

\* ThreadPoolExecutor(max_workers=max_workers) at its smallest
organize_max_workers == 2

ExifDay1 == [NoExif EXCEPT !.state = "tags", !.DateTimeOriginal = "2023:05:01 10:00:00"]
SidecarDay1 ==
  [form |-> "object", creationTime |-> NoField,
   photoTakenTime |-> [kind |-> "dict", timestamp |-> "1682935200", seconds |-> None]]
Undated == [exif |-> NoExif, side1 |-> NoSidecar, side2 |-> NoSidecar, mtime |-> Day3]

\* the kinds of file source_dir may hold: a name, what dates it, and its
\* st_size in units
PhotoKinds ==
  { [name |-> <<"IMG", ".jpg">>, meta |-> [Undated EXCEPT !.exif = ExifDay1], size |-> 3],
    [name |-> <<"IMG", "-", "2", ".jpg">>, meta |-> [Undated EXCEPT !.side1 = SidecarDay1],
     size |-> 2],
    [name |-> <<"IMG", ".jpg">>, meta |-> Undated, size |-> 1],
    [name |-> <<"IMG", ".JPG">>, meta |-> [Undated EXCEPT !.exif = ExifDay1], size |-> 2],
    [name |-> <<"notes", ".txt">>, meta |-> Undated, size |-> 1] }

\* files dest_dir may hold before the first call (an earlier organize run)
OldEntries ==
  { [dir |-> Day1,
     file |-> [id |-> -1, name |-> <<"IMG", ".jpg">>,
               meta |-> [Undated EXCEPT !.exif = ExifDay1], size |-> 1]],
    [dir |-> Day1,
     file |-> [id |-> -2, name |-> <<"IMG", "-", "2", ".jpg">>,
               meta |-> [Undated EXCEPT !.exif = ExifDay1], size |-> 1]] }

SourceTrees ==
  UNION {{ {[id |-> i, name |-> ks[i].name, meta |-> ks[i].meta, size |-> ks[i].size] : i \in 1..n} :
           ks \in [1..n -> PhotoKinds]} : n \in 0..MaxPhotos}

InitOrganize ==
  /\ DownloadAtRest
  /\ DateAtRest
  /\ LaunchAtRest
  /\ ExtractAtRest
  /\ srcTree \in SourceTrees
  \* dest_dir is new and inside source_dir, or outside it and may hold files
  /\ \/ nested = TRUE /\ destTree = {}
     \/ nested = FALSE /\ destTree \in SUBSET OldEntries
  /\ OrganizeIdle

\* source_dir.rglob("*"), files only: with dest_dir inside source_dir the
\* files of dest_dir are found as well. Each is paired with the date folder
\* of dest_dir it lies in (NoDate: it lies outside dest_dir)
Found ==
  {[file |-> f, at |-> NoDate] : f \in srcTree}
  \cup (IF nested THEN {[file |-> e.file, at |-> e.dir] : e \in destTree} ELSE {})

RECURSIVE InOrder(_)
\* the files in the order rglob yields them (here: by id)
InOrder(S) ==
  IF S = {} THEN <<>>
  ELSE LET x == CHOOSE y \in S : \A z \in S : y.file.id <= z.file.id
       IN <<x>> \o InOrder(S \ {x})

\* line 140: one future per file, not started yet
Submitted(x) ==
  [file |-> x.file, at |-> x.at, st |-> "queued", day |-> NoDate, target |-> <<>>,
   seen |-> {}]

\* line 122: all_files, as the futures of line 140
AllFiles ==
  LET fs == InOrder({x \in Found : IsImage(x.file.name)})
  IN [i \in 1..Len(fs) |-> Submitted(fs[i])]

OrgEmit(evs, e) == Append(evs, e)

\* lines 118-140: list the images, emit start; without images emit end and
\* return, else submit every file to the pool
OrganizeStart ==
  /\ org_pc = "idle"
  /\ org_runs < MaxRuns
  /\ org_runs' = org_runs + 1
  /\ all_files' = AllFiles
  /\ done' = 0
  /\ leftAtStart' = Cardinality({f \in srcTree : IsImage(f.name)})
  /\ LET started == <<[event |-> "start", total_files |-> Len(AllFiles)]>> IN
     IF AllFiles = <<>>
     THEN /\ org_events' = OrgEmit(started, [event |-> "end"])
          /\ org_pc' = "idle"
     ELSE /\ org_events' = started
          /\ org_pc' = "collect"
  /\ UNCHANGED <<srcTree, destTree, nested, lost, outsideOrganize>>

\* the names in one date folder of dest_dir
NamesIn(tree, d) == {e.file.name : e \in {x \in tree : x.dir = d}}

Busy == {i \in 1..Len(all_files) : all_files[i].st = "resolved"}

\* _move_one, lines 99-106, on a free worker: the date, the folder, the
\* target path that does not exist now
Resolve(i) ==
  /\ org_pc = "collect"
  /\ all_files[i].st = "queued"
  /\ \A j \in 1..(i - 1) : all_files[j].st # "queued"
  /\ Cardinality(Busy) < organize_max_workers
  /\ LET d == BestDate(all_files[i].file.meta) IN
     all_files' = [all_files EXCEPT ![i].st = "resolved", ![i].day = d,
                     ![i].seen = NamesIn(destTree, d),
                     ![i].target = EnsureUniquePath(NamesIn(destTree, d), all_files[i].file.name)]
  /\ UNCHANGED <<srcTree, destTree, nested, org_pc, done, org_events, org_runs, lost,
                 leftAtStart, outsideOrganize>>

\* the tree once the file of future t has left its place
Vacated(tree, t) ==
  IF t.at = NoDate THEN tree ELSE tree \ {[dir |-> t.at, file |-> t.file]}

\* what lies at the target path of future t
Occupant(tree, t) == {e \in tree : e.dir = t.day /\ e.file.name = t.target}

\* shutil.move(src, target_path): the file takes the target path, and any
\* file that lies there by now is replaced
Moved(tree, t) ==
  (Vacated(tree, t) \ Occupant(Vacated(tree, t), t))
  \cup {[dir |-> t.day, file |-> [t.file EXCEPT !.name = t.target]]}

\* _move_one, lines 107-109: stat and move; either may raise, the file then
\* stays where it is
Move(i) ==
  /\ org_pc = "collect"
  /\ all_files[i].st = "resolved"
  /\ \E r \in {"ok", "fail"} :
       IF r = "ok"
       THEN /\ destTree' = Moved(destTree, all_files[i])
            /\ srcTree' = srcTree \ {all_files[i].file}
            /\ lost' = lost \cup {e.file.id : e \in Occupant(Vacated(destTree, all_files[i]), all_files[i])}
            /\ all_files' = [all_files EXCEPT ![i].st = "moved"]
       ELSE /\ all_files' = [all_files EXCEPT ![i].st = "failed"]
            /\ UNCHANGED <<srcTree, destTree, lost>>
  /\ UNCHANGED <<nested, org_pc, done, org_events, org_runs, leftAtStart,
                 outsideOrganize>>

\* lines 141-149: the next finished future, in the order futures finish or
\* are found finished; _move_one returned (path.name, size) or raised
Collect(i) ==
  /\ org_pc = "collect"
  /\ all_files[i].st \in {"moved", "failed"}
  /\ IF all_files[i].st = "moved"
     THEN /\ done' = done + 1
          /\ org_events' = OrgEmit(org_events,
               [event |-> "file_complete", filename |-> all_files[i].file.name,
                file_bytes |-> all_files[i].file.size,
                completed_files |-> done + 1, total_files |-> Len(all_files)])
          /\ all_files' = [all_files EXCEPT ![i].st = "completed"]
     ELSE /\ org_events' = OrgEmit(org_events, [event |-> "file_error"])
          /\ all_files' = [all_files EXCEPT ![i].st = "errored"]
          /\ UNCHANGED done
  /\ UNCHANGED <<srcTree, destTree, nested, org_pc, org_runs, lost, leftAtStart,
                 outsideOrganize>>

\* Collect with a fault: the first failure ends the loop
Collected_UntilError ==
  \/ \A i \in 1..Len(all_files) : all_files[i].st \in {"completed", "errored"}
  \/ \E j \in 1..Len(all_files) : all_files[j].st = "errored"

\* as_completed is exhausted: every future was collected
Collected == \A i \in 1..Len(all_files) : all_files[i].st \in {"completed", "errored"}

\* lines 151-153: the pool is shut down, the end event is emitted
OrganizeEnd ==
  /\ org_pc = "collect"
  /\ Collected
  /\ org_events' = OrgEmit(org_events, [event |-> "end"])
  /\ org_pc' = "idle"
  /\ UNCHANGED <<srcTree, destTree, nested, all_files, done, org_runs, lost,
                 leftAtStart, outsideOrganize>>

NextOrganize ==
  \/ OrganizeStart
  \/ \E i \in 1..Len(all_files) : Resolve(i)
  \/ \E i \in 1..Len(all_files) : Move(i)
  \/ \E i \in 1..Len(all_files) : Collect(i)
  \/ OrganizeEnd

SpecOrganize == InitOrganize /\ [][NextOrganize]_vars

\* ================================================== extractor.py
MaxArchives == 2    \* *.zip files under download_dir

\* ThreadPoolExecutor(max_workers=max_workers) at its smallest
extract_max_workers == 2

\* the kinds of archive download_dir may hold. readable: zipfile.ZipFile
\* opens it; an entry is its relative path, its uncompressed size, its
\* content, and whether zf.extract succeeds on it
ArchiveKinds ==
  { [name |-> "a.zip", readable |-> TRUE,
     entries |-> <<[path |-> "x.jpg", file_size |-> 1, data |-> "a:x", ok |-> TRUE]>>],
    [name |-> "b.zip", readable |-> TRUE,
     entries |-> <<[path |-> "x.jpg", file_size |-> 2, data |-> "b:x", ok |-> TRUE],
                   [path |-> "y.jpg", file_size |-> 1, data |-> "b:y", ok |-> TRUE]>>],
    [name |-> "c.zip", readable |-> FALSE, entries |-> <<>>],
    [name |-> "d.zip", readable |-> TRUE,
     entries |-> <<[path |-> "y.jpg", file_size |-> 1, data |-> "d:y", ok |-> TRUE],
                   [path |-> "z.jpg", file_size |-> 2, data |-> "d:z", ok |-> FALSE]>>] }

RECURSIVE SumFileSizes(_)
\* sum(i.file_size for i in zf.infolist())
SumFileSizes(entries) ==
  IF entries = <<>> THEN 0 ELSE Head(entries).file_size + SumFileSizes(Tail(entries))

\* _calc_archive_sizes with a fault: only the first entry is counted
CalcArchiveSize_FirstEntry(z) ==
  IF z.readable /\ z.entries # <<>> THEN z.entries[1].file_size ELSE 0

\* _calc_archive_sizes (lines 22-31), for one archive: 0 when it cannot be read
CalcArchiveSize(z) == IF z.readable THEN SumFileSizes(z.entries) ELSE 0

\* line 76: one future per archive, not started yet
SubmittedArchive(z) ==
  [zip |-> z, size |-> CalcArchiveSize(z), st |-> "queued", pos |-> 1, bytes_done |-> 0]

RECURSIVE SumSizesOf(_)
SumSizesOf(jobs) == IF jobs = <<>> THEN 0 ELSE Head(jobs).size + SumSizesOf(Tail(jobs))

\* line 53: an archive as rglob("*.zip") finds it
FoundArchive(z) == [zip |-> z, size |-> 0, st |-> "found", pos |-> 1, bytes_done |-> 0]

ArchiveInputs == UNION {[1..n -> ArchiveKinds] : n \in 0..MaxArchives}

InitExtract ==
  /\ DownloadAtRest
  /\ DateAtRest
  /\ LaunchAtRest
  /\ OrganizeAtRest
  /\ ExtractIdle
  /\ archives \in {[i \in 1..Len(zs) |-> FoundArchive(zs[i])] : zs \in ArchiveInputs}

\* lines 49-76: list the archives, emit start; without archives emit end and
\* return, else size them and submit every archive to the pool
ExtractStart ==
  /\ ext_pc = "idle"
  /\ ext_events = <<>>
  /\ global_total_bytes' =
       SumSizesOf([i \in 1..Len(archives) |-> SubmittedArchive(archives[i].zip)])
  /\ global_done_bytes' = 0
  /\ LET started == <<[event |-> "start", total_files |-> Len(archives)]>> IN
     IF archives = <<>>
     THEN /\ ext_events' = Append(started, [event |-> "end"])
          /\ ext_pc' = "returned"
     ELSE /\ ext_events' = started
          /\ ext_pc' = "collect"
  /\ archives' = [i \in 1..Len(archives) |-> SubmittedArchive(archives[i].zip)]
  /\ UNCHANGED <<extractTree, outsideExtract>>

Extracting == {i \in 1..Len(archives) : archives[i].st = "open"}

\* _extract_archive, line 36, on a free worker: open the archive, or raise
Open(i) ==
  /\ ext_pc = "collect"
  /\ archives[i].st = "queued"
  /\ \A j \in 1..(i - 1) : archives[j].st # "queued"
  /\ Cardinality(Extracting) < extract_max_workers
  /\ archives' = [archives EXCEPT ![i].st =
       IF ~archives[i].zip.readable THEN "failed"
       ELSE IF archives[i].zip.entries = <<>> THEN "extracted" ELSE "open"]
  /\ UNCHANGED <<extractTree, ext_pc, global_total_bytes, global_done_bytes, ext_events,
                 outsideExtract>>

\* zf.extract(info, extract_dir): the path holds the entry's content now
ExtractedTo(tree, info) ==
  {e \in tree : e.path # info.path} \cup {[path |-> info.path, data |-> info.data]}

\* _extract_archive, lines 37-40: the next entry is written and counted, or
\* zf.extract raises
ExtractEntry(i) ==
  /\ ext_pc = "collect"
  /\ archives[i].st = "open"
  /\ LET info == archives[i].zip.entries[archives[i].pos] IN
     IF info.ok
     THEN /\ extractTree' = ExtractedTo(extractTree, info)
          /\ archives' = [archives EXCEPT
               ![i].bytes_done = @ + info.file_size,
               ![i].pos = @ + 1,
               ![i].st = IF archives[i].pos = Len(archives[i].zip.entries)
                         THEN "extracted" ELSE "open"]
     ELSE /\ archives' = [archives EXCEPT ![i].st = "failed"]
          /\ UNCHANGED extractTree
  /\ UNCHANGED <<ext_pc, global_total_bytes, global_done_bytes, ext_events, outsideExtract>>

\* lines 78-97: the next finished future, in the order futures finish or
\* are found finished: count and report its bytes, or report its error
CollectArchive(i) ==
  /\ ext_pc = "collect"
  /\ archives[i].st \in {"extracted", "failed"}
  /\ IF archives[i].st = "extracted"
     THEN /\ global_done_bytes' = global_done_bytes + archives[i].bytes_done
          /\ ext_events' = ext_events \o
               <<[event |-> "file_progress", archive |-> archives[i].zip.name,
                  bytes_done |-> global_done_bytes + archives[i].bytes_done,
                  bytes_total |-> global_total_bytes],
                 [event |-> "file_complete", archive |-> archives[i].zip.name]>>
          /\ archives' = [archives EXCEPT ![i].st = "completed"]
     ELSE /\ ext_events' = Append(ext_events,
               [event |-> "file_error", archive |-> archives[i].zip.name])
          /\ archives' = [archives EXCEPT ![i].st = "errored"]
          /\ UNCHANGED global_done_bytes
  /\ UNCHANGED <<extractTree, ext_pc, global_total_bytes, outsideExtract>>

\* ArchivesCollected with a fault: the first failure ends the loop
ArchivesCollected_UntilError ==
  \/ \A i \in 1..Len(archives) : archives[i].st \in {"completed", "errored"}
  \/ \E j \in 1..Len(archives) : archives[j].st = "errored"

\* as_completed is exhausted: every future was collected
ArchivesCollected ==
  \A i \in 1..Len(archives) : archives[i].st \in {"completed", "errored"}

\* lines 98-100: the pool is shut down, the end event is emitted
ExtractEnd ==
  /\ ext_pc = "collect"
  /\ ArchivesCollected
  /\ ext_events' = Append(ext_events, [event |-> "end"])
  /\ ext_pc' = "returned"
  /\ UNCHANGED <<archives, extractTree, global_total_bytes, global_done_bytes,
                 outsideExtract>>

NextExtract ==
  \/ ExtractStart
  \/ \E i \in 1..Len(archives) : Open(i)
  \/ \E i \in 1..Len(archives) : ExtractEntry(i)
  \/ \E i \in 1..Len(archives) : CollectArchive(i)
  \/ ExtractEnd

SpecExtract == InitExtract /\ [][NextExtract]_vars

\* ------------------------------------------------------------ the launch
\* what one call of _launch() (lines 130-152) can meet: a context, or an
\* exception with its cause and str(e) as the phrases it contains. Playwright
\* words a missing executable as in the first two; the others are a launch
\* that timed out, a host without the system libraries, and an OSError of
\* mkdir (line 138)
LaunchOutcomes ==
  { Launched,
    [ok |-> FALSE, cause |-> "missing",
     msg |-> {"BrowserType.launch", "Executable doesn't exist",
              "Please run the following command to download new browsers"}],
    [ok |-> FALSE, cause |-> "missing",
     msg |-> {"BrowserType.launch", "Executable doesn't exist"}],
    [ok |-> FALSE, cause |-> "timeout",
     msg |-> {"BrowserType.launch", "Timeout 180000ms exceeded"}],
    [ok |-> FALSE, cause |-> "host",
     msg |-> {"BrowserType.launch", "Host system is missing dependencies to run browsers"}],
    [ok |-> FALSE, cause |-> "oserror", msg |-> {"Permission denied"}] }

\* line 119: (sys.executable, "python", "py")
install_commands == 3

\* msg.lower(), phrase by phrase
LowerMsg(msg) ==
  {IF ph = "BrowserType.launch" THEN "browsertype.launch" ELSE ph : ph \in msg}

\* need_install with a fault: the middle test compares lower case with lower case
NeedInstall_AnyLaunch(msg) ==
  \/ "Executable doesn't exist" \in msg
  \/ "browsertype.launch" \in LowerMsg(msg)
  \/ "Please run the following command to download new browsers" \in msg

\* lines 159-163: need_install
NeedInstall(msg) ==
  \/ "Executable doesn't exist" \in msg
  \/ "browserType.launch" \in LowerMsg(msg)
  \/ "Please run the following command to download new browsers" \in msg

\* lines 116-124: the commands _install_browsers_programmatically runs when
\* the first `failing` of them fail: it stops at the first that succeeds
CommandsRun(failing) == IF failing < install_commands THEN failing + 1 ELSE install_commands

\* lines 154-169: how _prepare_context ends, the launches it made, the calls
\* of the install and the commands these ran
PrepareContext(l) ==
  IF l.first.ok
  THEN [result |-> "context", launches |-> 1, installs |-> 0, commands |-> 0]
  ELSE IF ~NeedInstall(l.first.msg)
  THEN [result |-> "raised", launches |-> 1, installs |-> 0, commands |-> 0]
  ELSE [result |-> IF l.second.ok THEN "context" ELSE "raised",
        launches |-> 2, installs |-> 1, commands |-> CommandsRun(l.failing)]

LaunchInputs ==
  [first : LaunchOutcomes, failing : 0..install_commands, second : LaunchOutcomes]

InitLaunch ==
  /\ DownloadAtRest
  /\ DateAtRest
  /\ OrganizeAtRest
  /\ ExtractAtRest
  /\ launch \in LaunchInputs
  /\ prepared = NotPrepared

\* context = await _prepare_context(browser, download_path)
PrepareCall ==
  /\ prepared = NotPrepared
  /\ prepared' = PrepareContext(launch)
  /\ UNCHANGED <<launch, outsideLaunch>>

SpecLaunch == InitLaunch /\ [][PrepareCall]_vars

\* ------------------------------------------------------------ the wait alone
\* download_all up to its start event (lines 180-232), run to the end of each
\* step: every await of these lines returns or raises
NextWait ==
  \/ Start
  \/ InitSave
  \/ Prepare
  \/ Goto
  \/ Poll
  \/ PollTimeout
  \/ EmitStart

SpecWait ==
  /\ Init
  /\ [][NextWait]_vars
  /\ WF_vars(Prepare)
  /\ WF_vars(Goto)
  /\ WF_vars(Poll)
  /\ WF_vars(PollTimeout)

\* ------------------------------------------------------------ helpers
\* positions of the events of one kind
EventsOf(kind) == {i \in 1..Len(events) : events[i].event = kind}

\* an event of this kind was emitted for this key
EventFor(kind, key) == \E i \in EventsOf(kind) : events[i].key = key

\* the filename the transfer started by a decodable, locatable key suggests
FileOfKey(key) == Suggested(Relocate(page, DecodeKey(key))[1])

\* keys this invocation recorded as completed
MarkedNow == completed_keys \ startKeys

\* ------------------------------------------------------------ claims

\* C1: with resume enabled, a target whose key was in the persisted
\* completed_keys when the invocation started is never handed to
\* _click_target, and once the loop has passed it a file_skipped event for
\* that key has been emitted.
C1_ResumeSkip ==
  resume =>
    \A j \in 1..Len(targets) :
      targets[j] \in startKeys =>
        /\ targets[j] \notin clicked
        /\ targets[j] \notin saved
        /\ j < idx => EventFor("file_skipped", targets[j])

C1_Witness ==
  /\ outcome = "returned"
  /\ resume
  /\ \E j \in 1..Len(targets) :
       /\ targets[j] \in startKeys
       /\ EventFor("file_skipped", targets[j])
       /\ j < Len(targets)
       /\ targets[j + 1] \in clicked

\* C2 (as claimed): with resume enabled, a target whose key is in the loaded
\* completed_keys or whose filename is in the persisted completed_files is
\* never written by save_as.
C2_KeyOrFilenameSkips ==
  resume =>
    \A k \in saved : k \notin startKeys /\ FileOfKey(k) \notin startFiles

C4_CrashKeepsHistory ==
  [][outcome' = "crashed"
       => /\ LoadKeys(stateFile) \subseteq LoadKeys(stateFile')
          /\ {FileOfKey(k) : k \in LoadKeys(stateFile)}
               \subseteq LoadFiles(stateFile') \cup GlobZip(disk')]_vars

\* C5: every file_complete event is emitted with its filename already in the
\* state file, and the key of the target just completed is in the state file
\* when its event is the last one emitted.
C5_PersistBeforeReport ==
  /\ \A i \in EventsOf("file_complete") :
       /\ stateFile.status = "ok"
       /\ events[i].filename \in stateFile.files
  /\ (events # <<>> /\ events[Len(events)].event = "file_complete")
       => /\ idx >= 2
          /\ targets[idx - 1] \in stateFile.keys
          /\ stateFile = SaveFile(completed_keys, completed_files)

C5_Witness ==
  /\ events # <<>>
  /\ events[Len(events)].event = "file_complete"
  /\ targets[idx - 1] \in saved
  /\ Cardinality(EventsOf("file_complete")) = 2

\* C6: once the token is set, the loop touches no target beyond the one in
\* flight at that moment (none at all if none was in flight): no later target
\* is clicked, skipped or recorded, the loop position does not move past it, a
\* transfer whose save_as was called is recorded or reported as failed, and
\* the invocation returns with the end event.
C6_CooperativeCancel ==
  cancelled =>
    /\ idx <= cancelPos + 1
    /\ \A j \in 1..Len(targets) :
         j > cancelPos =>
           /\ targets[j] \notin clicked
           /\ targets[j] \notin MarkedNow
           /\ ~EventFor("file_skipped", targets[j])
    /\ (pc \in {"loop", "finalize"} \/ outcome = "returned") =>
         \A k \in saved : k \in completed_keys \/ EventFor("file_error", k)
    /\ (outcome = "returned" /\ targets # <<>>) =>
         /\ events[Len(events)].event = "end"
         /\ idx = cancelPos + 1

\* cancelled while the first transfer was in flight: it was recorded, the
\* second target was left alone, and the session returned
C6_Witness ==
  /\ cancelled
  /\ outcome = "returned"
  /\ cancelPos = 1
  /\ Len(targets) >= 2
  /\ targets[1] \in saved
  /\ targets[1] \in MarkedNow

\* C7 (as claimed): an invocation that returned has emitted the start event
\* first and exactly one end event, last.
C7_StartEndPair ==
  outcome = "returned" =>
    /\ events # <<>>
    /\ events[1].event = "start"
    /\ EventsOf("end") = {Len(events)}
    /\ Len(events) >= 2

\* C8 (as claimed): no invocation returns or raises with its context open.
C8_ContextReleased ==
  outcome \in {"returned", "raised"} => context # "open"

C10_KeyRoundTrip ==
  \A s \in 1..Len(selectors) :
    LET loc == Locator(page, selectors[s]) IN
    \A i \in 0..(Len(loc) - 1) :
      LET key == MakeKey(selectors[s], i, loc[i + 1].href) IN
      (\E j \in 1..Len(targets) : targets[j] = key)
        => DecodeKey(key) = [ok |-> TRUE, sel |-> selectors[s], idx |-> i]

\* the events that carry a completed_files count
Counted == EventsOf("start") \cup EventsOf("file_skipped") \cup EventsOf("file_complete")

\* C11: within one invocation the completed_files values of the start,
\* file_skipped and file_complete events never decrease from one event to a
\* later one, the step from the start event to the first per-target event
\* included.
C11_CountsMonotone ==
  \A i \in Counted : \A j \in Counted :
    i < j => events[i].completed_files <= events[j].completed_files

\* the events that carry a bytes_completed sum
Summed == EventsOf("start") \cup EventsOf("file_complete")

BytesNeverDrop ==
  \A i \in Summed : \A j \in Summed :
    i < j => events[i].bytes_completed <= events[j].bytes_completed

\* C12 as stated: within one invocation the bytes_completed values of the
\* start and file_complete events never decrease, no other process touching
\* the download directory meanwhile.
C12_BytesMonotone == BytesNeverDrop

\* C12, amended: the same, for an invocation with resume enabled. (With resume
\* disabled save_as replaces an existing completed file, and the replacement
\* may be shorter.)
C12_BytesMonotoneOnResume == resume => BytesNeverDrop

\* a resumed invocation whose sum grew while a long older file stayed in place
C12_Witness ==
  /\ resume
  /\ "a.zip" \in fat /\ "a.zip" \in completed_files
  /\ \E i \in Summed : \E j \in Summed :
       i < j /\ events[i].bytes_completed < events[j].bytes_completed

\* C13: DownloadState.load never raises, and from a state file that is
\* missing or corrupt (not JSON, not an object, a field of the wrong shape)
\* both completed_keys and completed_files are loaded empty.
C13_LoadAllOrNothing ==
  (pc = "init_save" /\ ~Wellformed(stateFile)) =>
    (outcome = "running" /\ startKeys = {} /\ startFiles = {})

\* the embedded tags hold a date under this key
ValidTag(exif, key) == exif.state = "tags" /\ Strptime(exif[key]) # NoDate

\* C16: _best_date returns the first valid embedded tag in the order
\* DateTimeOriginal, DateTimeDigitized, DateTime, whatever the sidecars say;
\* without a valid tag, the date of the first sidecar candidate that has one;
\* without either, the modification time.
C16_DatePriority ==
  best # NoDate =>
    IF ValidTag(meta.exif, "DateTimeOriginal")
    THEN best = Strptime(meta.exif.DateTimeOriginal)
    ELSE IF ValidTag(meta.exif, "DateTimeDigitized")
    THEN best = Strptime(meta.exif.DateTimeDigitized)
    ELSE IF ValidTag(meta.exif, "DateTime")
    THEN best = Strptime(meta.exif.DateTime)
    ELSE IF SidecarDay(meta.side1) # NoDate THEN best = SidecarDay(meta.side1)
    ELSE IF SidecarDay(meta.side2) # NoDate THEN best = SidecarDay(meta.side2)
    ELSE best = meta.mtime

\* a malformed DateTimeOriginal fell through to DateTimeDigitized, and a
\* sidecar with another date was ignored
C16_Witness ==
  /\ best = Day2
  /\ meta.exif.state = "tags"
  /\ meta.exif.DateTimeOriginal = "junk"
  /\ SidecarDay(meta.side1) = Day1

\* C14: no move of organize_photos replaces a file that lies at the
\* destination, whatever the interleaving of the workers.
C14_NeverOverwrites == lost = {}

\* futures whose target path has been computed
Resolved == {i \in 1..Len(all_files) : all_files[i].st # "queued"}

\* C15: _ensure_unique_path returns name.ext when the folder does not hold
\* it, else name-n.ext for the smallest n >= 2 the folder does not hold; the
\* folder never holds the returned name when it is returned.
C15_FirstFit ==
  \A i \in Resolved :
    LET t == all_files[i]
        stem == PathStem(t.file.name)
        sfx == PathSuffix(t.file.name)
    IN /\ t.target \notin t.seen
       /\ IF t.file.name \notin t.seen
          THEN t.target = t.file.name
          ELSE \E n \in 2..9 :
                 /\ t.target = Candidate(stem, n, sfx)
                 /\ \A m \in 2..(n - 1) : Candidate(stem, m, sfx) \in t.seen

\* the third file resolving to 2023/05/01/IMG.jpg becomes IMG-3.jpg
C15_Witness ==
  \E i \in Resolved :
    /\ all_files[i].file.name = <<"IMG", ".jpg">>
    /\ all_files[i].day = Day1
    /\ all_files[i].target = <<"IMG", "-", "3", ".jpg">>

\* C17: once a call has moved every image file out of the source, the next
\* call on the same directories finds no file (start with total_files 0,
\* then end) and moves nothing.
C17_SecondRunEmpty ==
  (org_runs >= 2 /\ leftAtStart = 0) =>
    org_events = <<[event |-> "start", total_files |-> 0], [event |-> "end"]>>

\* positions of the organize events of one kind
OrgEventsOf(kind) == {i \in 1..Len(org_events) : org_events[i].event = kind}

\* futures in one of these states
InState(sts) == {i \in 1..Len(all_files) : all_files[i].st \in sts}

\* the call of organize_photos has returned
OrganizeReturned == org_runs > 0 /\ org_pc = "idle"

\* C20: every image file found yields exactly one outcome event,
\* file_complete or file_error; a failure does not keep the other files from
\* being moved and reported; the k-th file_complete carries completed_files
\* = k and the last one the number of files moved; start comes first and
\* end last, and they are the only events when no image is found.
C20_OrganizeEvents ==
  /\ Cardinality(OrgEventsOf("file_complete")) = Cardinality(InState({"completed"}))
  /\ Cardinality(OrgEventsOf("file_error")) = Cardinality(InState({"errored"}))
  /\ \A i \in OrgEventsOf("file_complete") :
       org_events[i].completed_files
         = Cardinality({j \in OrgEventsOf("file_complete") : j <= i})
  /\ org_runs > 0 => OrgEventsOf("start") = {1}
  /\ OrgEventsOf("end") \subseteq {Len(org_events)}
  /\ OrganizeReturned =>
       /\ OrgEventsOf("end") = {Len(org_events)}
       /\ InState({"completed", "errored"}) = 1..Len(all_files)
       /\ Len(org_events) = Len(all_files) + 2
       /\ done = Cardinality(InState({"completed"}))

\* a call has returned after one file failed and a later one was moved
C20_Witness ==
  /\ OrganizeReturned
  /\ \E i \in OrgEventsOf("file_error") : \E j \in OrgEventsOf("file_complete") : i < j

\* positions of the extract events of one kind
ExtEventsOf(kind) == {i \in 1..Len(ext_events) : ext_events[i].event = kind}

\* archives whose future is in one of these states
ArchivesIn(sts) == {i \in 1..Len(archives) : archives[i].st \in sts}

RECURSIVE SumOver(_)
\* the precomputed sizes of a set of archives, summed
SumOver(S) ==
  IF S = {} THEN 0
  ELSE LET i == CHOOSE x \in S : TRUE IN archives[i].size + SumOver(S \ {i})

\* C18: over the file_progress events of one extract_all run bytes_done never
\* decreases and never exceeds bytes_total; once the run has returned, the
\* accumulated bytes_done is the sum of the precomputed sizes of the archives
\* that did not error.
C18_ByteProgress ==
  /\ \A i \in ExtEventsOf("file_progress") :
       /\ ext_events[i].bytes_done <= ext_events[i].bytes_total
       /\ \A j \in ExtEventsOf("file_progress") :
            i < j => ext_events[i].bytes_done <= ext_events[j].bytes_done
  /\ ext_pc = "returned" =>
       /\ global_done_bytes = SumOver(ArchivesIn({"completed"}))
       /\ \A i \in ExtEventsOf("file_progress") :
            (\A j \in ExtEventsOf("file_progress") : j <= i)
              => ext_events[i].bytes_done = SumOver(ArchivesIn({"completed"}))

\* a run has returned in which one archive failed part-way and another was
\* extracted: the last bytes_done stays below bytes_total
C18_Witness ==
  /\ ext_pc = "returned"
  /\ \E i \in ArchivesIn({"errored"}) : archives[i].pos > 1
  /\ \E i \in ExtEventsOf("file_progress") :
       /\ ext_events[i].bytes_done > 0
       /\ ext_events[i].bytes_done < ext_events[i].bytes_total

\* C19: every archive found yields exactly one outcome event, file_complete
\* or file_error; a failing archive does not keep the others from being
\* extracted; start comes first and end last, and they are the only events
\* when no archive is found.
C19_ExtractEvents ==
  /\ \A i \in 1..Len(archives) :
       /\ Cardinality({k \in ExtEventsOf("file_complete") :
                         ext_events[k].archive = archives[i].zip.name})
            = Cardinality({j \in ArchivesIn({"completed"}) :
                             archives[j].zip.name = archives[i].zip.name})
       /\ Cardinality({k \in ExtEventsOf("file_error") :
                         ext_events[k].archive = archives[i].zip.name})
            = Cardinality({j \in ArchivesIn({"errored"}) :
                             archives[j].zip.name = archives[i].zip.name})
  /\ ext_events # <<>> => ExtEventsOf("start") = {1}
  /\ ExtEventsOf("end") \subseteq {Len(ext_events)}
  /\ ext_pc = "returned" =>
       /\ ExtEventsOf("end") = {Len(ext_events)}
       /\ ArchivesIn({"completed", "errored"}) = 1..Len(archives)
       /\ Cardinality(ExtEventsOf("file_complete") \cup ExtEventsOf("file_error"))
            = Len(archives)
       /\ \A i \in ArchivesIn({"errored"}) :
            ~archives[i].zip.readable
            \/ \E k \in 1..Len(archives[i].zip.entries) : ~archives[i].zip.entries[k].ok
       /\ archives = <<>> => Len(ext_events) = 2

\* a run has returned after one archive failed and a later one was extracted
C19_Witness ==
  /\ ext_pc = "returned"
  /\ \E i \in ExtEventsOf("file_error") : \E j \in ExtEventsOf("file_complete") : i < j

\* C21: the filename of every file_complete event of organize_photos is the
\* name a moved file has at its destination, any -N suffix included, and
\* file_bytes is that file's size.
C21_FinalNameReported ==
  \A k \in OrgEventsOf("file_complete") :
    \E i \in InState({"completed"}) :
      /\ org_events[k].filename = all_files[i].target
      /\ org_events[k].file_bytes = all_files[i].file.size

\* C22: a closure of the page or of the context met by the wait loop closes
\* the context and starts a new acquisition while fewer than max_attempts
\* attempts were made, leaves download_all as an error on attempt number
\* max_attempts, and any other error of the wait leaves it at once; attempts
\* never exceeds max_attempts.
C22_RetryBudget ==
  /\ attempts <= max_attempts
  /\ pc = "poll" /\ waited < max_wait_ms =>
       \A r \in PollResults :
         /\ r \in {"page_closed", "context_closed"} /\ attempts < max_attempts =>
              /\ WaitPass(r).pc = "prepare"
              /\ WaitPass(r).context = "closed"
              /\ ~WaitPass(r).raised
         /\ r \in {"page_closed", "context_closed"} /\ attempts >= max_attempts =>
              /\ WaitPass(r).pc = "idle"
              /\ WaitPass(r).raised
         /\ r = "other_error" =>
              /\ WaitPass(r).pc = "idle"
              /\ WaitPass(r).raised
              /\ WaitPass(r).context = context

\* the context was closed under the wait of attempt number max_attempts and
\* download_all ended with that error
C22_Witness ==
  /\ pc = "idle"
  /\ outcome = "raised"
  /\ attempts = max_attempts
  /\ context = "closed"

\* one pass of the wait loop either leaves the loop or adds poll_ms to waited
WaitAdvances ==
  pc = "poll" /\ waited < max_wait_ms =>
    \A r \in PollResults :
      /\ WaitPass(r).pc = "poll" => WaitPass(r).waited = waited + poll_ms
      /\ WaitPass(r).pc \in {"poll", "start_event", "prepare", "idle"}
      /\ r = "found" /\ CollectDownloadTargets(page) # <<>> =>
           /\ WaitPass(r).pc = "start_event"
           /\ WaitPass(r).targets # <<>>
      /\ r = "discovery_error" =>
           /\ WaitPass(r).pc = "poll"
           /\ WaitPass(r).targets = <<>>
           /\ ~WaitPass(r).raised

\* C24: one attempt makes at most max_wait_ms / poll_ms passes of the wait
\* loop, a pass that finds targets ends the wait with them, a pass whose
\* discovery raises goes on as one that found nothing, and the wait always
\* ends: at the start event (with targets or with none) or with an error.
C24_WaitEnds ==
  /\ [](waited <= max_wait_ms /\ waited % poll_ms = 0 /\ waited \div poll_ms <= MaxPolls)
  /\ []WaitAdvances
  /\ [](pc = "start_event" /\ targets = <<>> /\ outcome = "running" => waited = max_wait_ms)
  /\ (pc = "poll") ~> (pc = "start_event" \/ (pc = "idle" /\ outcome = "raised"))

\* the ceiling elapsed: MaxPolls passes found nothing and the start event is next
C24_Witness ==
  /\ pc = "start_event"
  /\ targets = <<>>
  /\ waited = MaxPolls * poll_ms

\* C23: _prepare_context calls the install, once, and launches a second time
\* exactly when the first launch failed for a missing browser executable; any
\* other failure of the first launch leaves it with one launch and no install;
\* a failure of the second launch leaves it too, and there is no third launch.
C23_LaunchRetry ==
  prepared # NotPrepared =>
    /\ prepared.installs = 1 <=> (~launch.first.ok /\ launch.first.cause = "missing")
    /\ prepared.installs \in {0, 1}
    /\ prepared.launches = IF prepared.installs = 1 THEN 2 ELSE 1
    /\ prepared.installs = 1 => prepared.commands \in 1..install_commands
    /\ prepared.result = "context" <=>
         \/ launch.first.ok
         \/ launch.first.cause = "missing" /\ launch.second.ok
    /\ prepared.result \in {"context", "raised"}

\* the browsers were missing, the install ran and the second launch failed too
C23_Witness ==
  /\ prepared.installs = 1
  /\ prepared.launches = 2
  /\ prepared.result = "raised"
  /\ launch.first.cause = "missing"

\* the positions in the document of the elements sel matches, ascending
MatchPositions(pg, sel) ==
  SelectSeq([i \in 1..Len(pg) |-> i], LAMBDA i : Matches(sel, pg[i]))

\* the position in the document of the element a key leads _click_target to
\* (0: the key does not decode or finds no element)
ElementOfKey(key) ==
  LET d == DecodeKey(key)
      ps == MatchPositions(page, d.sel)
  IN IF d.ok /\ d.idx < Len(ps) THEN ps[d.idx + 1] ELSE 0

\* C25: _collect_download_targets yields each matching element once: no
\* element of the page is reached by two of the keys _click_target was
\* called with, also when two selectors match it.
C25_EachElementOnce ==
  \A k1 \in clicked : \A k2 \in clicked :
    k1 # k2 /\ ElementOfKey(k1) # 0 => ElementOfKey(k1) # ElementOfKey(k2)

\* C26: the list one pass of _collect_download_targets returns holds no key
\* twice, whatever the page holds.
C26_KeysUnique ==
  \A i \in 1..Len(targets) : \A j \in 1..Len(targets) :
    i # j => targets[i] # targets[j]

\* the page holds the same element twice and the pass returned a key for each
C26_Witness ==
  /\ Len(page) = 2
  /\ page[1] = page[2]
  /\ Len(targets) >= 2

\* C27: when download_all has loaded and seeded its state, and again when it
\* has saved it and is about to launch the browser, completed_keys is what
\* load gave, completed_files is what load gave together with the *.zip
\* files of the download directory and nothing else, and the saved file holds
\* exactly these two sets.
C27_Seeding ==
  /\ pc = "init_save" =>
       /\ completed_keys = LoadKeys(stateFile)
       /\ completed_files = LoadFiles(stateFile) \cup {f \in disk : IsZip(f)}
  /\ pc \in {"init_save", "prepare"} /\ attempts = 0 =>
       /\ completed_keys = startKeys
       /\ completed_files = startFiles \cup {f \in disk : IsZip(f)}
       /\ context = "none"
  /\ pc = "prepare" /\ attempts = 0 =>
       stateFile = [status |-> "ok", keys |-> completed_keys, files |-> completed_files]

\* a state loaded with a key and a filename was merged with an archive found
\* on disk next to a file that is no archive, and saved
C27_Witness ==
  /\ pc = "prepare"
  /\ startKeys # {}
  /\ startFiles # {}
  /\ \E f \in disk : IsZip(f) /\ f \notin startFiles
  /\ \E f \in disk : ~IsZip(f) /\ f \notin completed_files
  /\ stateFile.files = completed_files

\* C28: no step of download_all takes an element out of completed_keys or
\* completed_files while the process lives, an invocation that starts finds
\* in them at least what the one before it held, and a readable state file
\* that replaces a readable one holds at least what that one held.
C28_Accumulates ==
  [][ /\ outcome' \notin {"crashed", "none"} =>
           /\ completed_keys \subseteq completed_keys'
           /\ completed_files \subseteq completed_files'
      /\ Wellformed(stateFile) /\ Wellformed(stateFile') =>
           /\ stateFile.keys \subseteq stateFile'.keys
           /\ stateFile.files \subseteq stateFile'.files
    ]_vars

\* a second invocation has loaded what the first one recorded and has
\* recorded a target of its own on top of it
C28_Witness ==
  /\ runs = 2
  /\ startKeys # {}
  /\ startFiles # {}
  /\ MarkedNow # {}
  /\ stateFile.keys = completed_keys
  /\ startKeys \subseteq stateFile.keys

\* the date of one candidate when the array form is read as the object form
\* is: photoTakenTime, or else creationTime, each by timestamp or seconds
BothFormsDay(sc) ==
  IF sc.form \in {"object", "array"}
  THEN IF sc.photoTakenTime.kind = "dict"
       THEN EpochDay(OrElse(sc.photoTakenTime.timestamp, sc.photoTakenTime.seconds))
       ELSE IF sc.creationTime.kind = "dict"
       THEN EpochDay(OrElse(sc.creationTime.timestamp, sc.creationTime.seconds))
       ELSE NoDate
  ELSE NoDate

\* C29: for a photo without a valid embedded tag the date is that of
\* <name><ext>.json, or else of <name>.json, each read from photoTakenTime or
\* else creationTime by 'timestamp' or 'seconds', whether the sidecar is an
\* object or an array of objects; without such a date, the modification time.
C29_SidecarForms ==
  best # NoDate /\ GetExifDate(meta.exif) = NoDate =>
    best = IF BothFormsDay(meta.side1) # NoDate THEN BothFormsDay(meta.side1)
           ELSE IF BothFormsDay(meta.side2) # NoDate THEN BothFormsDay(meta.side2)
           ELSE meta.mtime

\* the files of a tree whose extension is not on the allow-list in any case
Unlisted(tree) == {f \in tree : f.name[Len(f.name)] = ".txt"}

\* C30: organize_photos leaves every file whose extension is not on the
\* allow-list where and as it is, takes none into dest_dir, names none in an
\* event and counts none in total_files.
C30_UnlistedUntouched ==
  [][ /\ Unlisted(srcTree') = Unlisted(srcTree)
      /\ Unlisted({e.file : e \in destTree'}) = {}
      /\ \A i \in 1..Len(all_files') : all_files'[i].file \notin Unlisted(srcTree)
      /\ \A k \in 1..Len(org_events') :
           /\ org_events'[k].event = "file_complete" =>
                org_events'[k].filename # <<"notes", ".txt">>
           /\ org_events'[k].event \in {"start", "file_complete"} =>
                org_events'[k].total_files = Len(all_files')
      /\ org_runs' # org_runs =>
           Len(all_files') = Cardinality(srcTree \ Unlisted(srcTree))
                             + (IF nested THEN Cardinality(destTree) ELSE 0)
    ]_vars

\* a call has ended that moved IMG.JPG and left notes.txt where it was
C30_Witness ==
  /\ org_pc = "idle"
  /\ org_runs = 1
  /\ Unlisted(srcTree) # {}
  /\ srcTree = Unlisted(srcTree)
  /\ \E e \in destTree : e.file.name = <<"IMG", ".JPG">>
  /\ Len(org_events) = 3
  /\ org_events[1].total_files = 1

\* the invocation is in or past its loop over at least one target
InOrPastLoop ==
  /\ targets # <<>>
  /\ pc \in {"loop", "got", "saved", "finalize"} \/ (pc = "idle" /\ outcome = "returned")

\* the events emitted for targets so far: all but the start and the end
TargetEvents == 2..(IF outcome = "returned" THEN Len(events) - 1 ELSE Len(events))

\* C31: in an invocation with targets the events are one start, then one
\* event per target visited, in discovery order and of kind file_skipped,
\* file_complete or file_error, then one end; the loop never goes back, a
\* target the loop had not reached when the cancellation came is not visited,
\* completed_count counts the skipped and completed ones and stays within
\* total_files, and without a cancellation every target has its event.
C31_EventProtocol ==
  InOrPastLoop =>
    /\ Len(events) >= 1
    /\ events[1].event = "start"
    /\ events[1].total_files = Len(targets)
    /\ \A k \in TargetEvents :
         /\ events[k].event \in {"file_skipped", "file_complete", "file_error"}
         /\ events[k].event \in {"file_skipped", "file_error"} =>
              events[k].key = targets[k - 1]
         /\ events[k].event = "file_complete" =>
              /\ events[k].filename = FileOfKey(targets[k - 1])
              /\ events[k].total_files = Len(targets)
    /\ Cardinality(TargetEvents) = idx - 1
    /\ Cardinality(TargetEvents) <= Len(targets)
    /\ completed_count =
         Cardinality({k \in TargetEvents : events[k].event \in {"file_skipped", "file_complete"}})
    /\ completed_count <= Len(targets)
    /\ cancelled /\ pc \in {"finalize", "idle"} => Cardinality(TargetEvents) <= cancelPos
    /\ outcome = "returned" =>
         /\ events[Len(events)].event = "end"
         /\ ~cancelled => Cardinality(TargetEvents) = Len(targets)
    /\ outcome # "returned" => \A k \in 1..Len(events) : events[k].event # "end"

\* an uncancelled invocation over three targets has ended, one of them
\* skipped, one completed and one failed
C31_Witness ==
  /\ outcome = "returned"
  /\ ~cancelled
  /\ Len(targets) = 3
  /\ Len(events) = 5
  /\ \E k \in TargetEvents : events[k].event = "file_skipped"
  /\ \E k \in TargetEvents : events[k].event = "file_complete"
  /\ \E k \in TargetEvents : events[k].event = "file_error"

\* C32: a step of the download loop that adds a key to completed_keys adds
\* the key of the target in hand, and the file of that target's suggested
\* name is in the download directory then: it was found there, or save_as
\* has returned for this key; the filename added is that name; a step that
\* reports a failure of the target changes neither set nor the state file.
C32_MarkedOnlyWithFile ==
  [][ /\ pc \in {"loop", "got", "saved"} /\ outcome' = "running"
           /\ completed_keys' # completed_keys =>
           /\ completed_keys' = completed_keys \cup {CurKey}
           /\ suggested = FileOfKey(CurKey)
           /\ suggested \in disk
           /\ suggested \in disk'
           /\ (pc = "got" /\ resume) \/ (pc = "saved" /\ CurKey \in saved)
      /\ pc \in {"loop", "got", "saved"} /\ outcome' = "running"
           /\ completed_files' # completed_files =>
           /\ completed_files' = completed_files \cup {suggested}
           /\ suggested \in disk
      /\ Len(events') = Len(events) + 1
           /\ events'[Len(events')].event = "file_error" =>
           /\ completed_keys' = completed_keys
           /\ completed_files' = completed_files
           /\ stateFile' = stateFile
    ]_vars

\* one target was recorded for a file found on disk, and another, whose
\* save_as failed, was reported as an error and is not recorded
C32_Witness ==
  /\ resume
  /\ \E k \in MarkedNow : k \notin saved /\ FileOfKey(k) \in disk
  /\ \E k \in saved : EventFor("file_error", k) /\ k \notin completed_keys

RECURSIVE EntriesInOrder(_, _)
\* the tree once the entries were extracted one after the other, up to the
\* first that fails
EntriesInOrder(tree, entries) ==
  IF entries = <<>> \/ ~Head(entries).ok THEN tree
  ELSE EntriesInOrder(ExtractedTo(tree, Head(entries)), Tail(entries))

RECURSIVE ArchivesInOrder(_, _)
\* the tree once the archives were extracted one after the other, as listed
ArchivesInOrder(tree, jobs) ==
  IF jobs = <<>> THEN tree
  ELSE ArchivesInOrder(IF Head(jobs).zip.readable
                       THEN EntriesInOrder(tree, Head(jobs).zip.entries)
                       ELSE tree,
                       Tail(jobs))

\* C33: what extract_all leaves under extract_dir depends on the archives
\* only, not on how the pool's workers interleave: it is what extracting the
\* archives one after the other, as listed, leaves.
C33_ScheduleIndependent ==
  ext_pc = "returned" => extractTree = ArchivesInOrder({}, archives)

====
